---------------------------- MODULE Spec2Model ----------------------------
(***************************************************************************)
(* A model of github.com/luxfi/cache: the count-bounded LRU cache          *)
(* (lru/lru.go), the container-backed LRU cache with an eviction callback  *)
(* (lru/cache.go), the size-bounded SizedCache and the sharded byte cache  *)
(* (bytecache).  The variable impl selects, at construction, which of the  *)
(* stores a behaviour drives; the other stores stay as constructed.        *)
(***************************************************************************)
EXTENDS Integers, Sequences, FiniteSets, TLC

(***************************************************************************)
(* Bounds of the model.                                                    *)
(***************************************************************************)
\* Largest configured capacity / maxSize tried at construction.
MaxCap == 3

\* The keys and values of the generic caches; the "value" sizing function of
\* a SizedCache weighs an entry by its value.
Keys == {"a", "b", "c", "d"}
Values == {1, 2}
Capacities == (-1)..MaxCap
Impls == {"lru", "container", "sized", "byte"}

\* Largest per-shard budget of the byte caches tried: maxBytes ranges over
\* non-positive values, values below numShards and multiples of numShards.
MaxShardBudget == 4
\* The counters getCalls, setCalls and misses are uint64; the model counts
\* exactly up to MaxCount, where a counter stays ("MaxCount or more").
MaxCount == 2

\* The calls the goroutines of the concurrent byte cache make in all.
MaxCalls == 3

\* Keys of the byte cache: three keys of XOR-fold 3 for the calls on one
\* shard, and keys of XOR-fold 3, 3 and 1 for the calls on two shards.
SameShardKeys == {<<3>>, <<1, 2>>, <<2, 1>>}
ByteKeys == {<<3>>, <<1, 2>>, <<1>>}
\* The bytes callers write into their buffers.
ByteVals == {7, 8}
\* The caller's buffers, and the buffer the last lookup allocated for its
\* result (the caller has dropped the ones allocated before); what they
\* hold at the start.
Bufs == {1, 2}
ResultBuf == Cardinality(Bufs) + 1
AllBufs == Bufs \cup {ResultBuf}
InitialBufs == [b \in AllBufs |-> IF b = 1 THEN <<7>> ELSE <<>>]
\* The keys of the calls that pass and mutate buffers.
BufKeys == {<<3>>, <<1>>}

\* The goroutines that call the byte cache concurrently, and their key.
Procs == {"p", "q"}
ConcKeys == {<<3>>}

\* Absent value (the zero value V of a miss, a nil pointer, no key).
None == 0

VARIABLES
    impl,          \* which store this behaviour drives
    last,          \* the last call made and what it returned
    touch,         \* live keys, most recently touched (Put or Get hit) first
    \* lru/lru.go Cache
    size, elements, order,
    \* SizedCache
    maxSize, currentSize, sizeFn, items, lru,
    \* lru/cache.go Cache
    mu, containerCache, capacity, onEvict,
    cbCalls,       \* the eviction callback's invocations during the last call
    \* bytecache Cache
    shards, maxBytes, getCalls, setCalls, misses,
    bufs,          \* the contents of the caller's buffers
    reset,         \* where the goroutine running Reset is: its step, its shard
    pre,           \* the shards as they were when that Reset began
    seen,          \* what the last two Has calls during that Reset reported
    procs,         \* each goroutine's call: its position and its locals
    started,       \* the number of calls the goroutines have begun
    done,          \* the lookups, missed lookups and Sets begun so far
    locks          \* the mu of each shard: who holds it, who waits for it

lruVars == <<size, elements, order>>
sizedVars == <<maxSize, currentSize, sizeFn, items, lru>>
wrapVars == <<mu, containerCache, capacity, onEvict, cbCalls>>
resetVars == <<reset, pre, seen>>
goVars == <<procs, started, done, locks>>
byteVars == <<shards, maxBytes, goVars, getCalls, setCalls, misses, bufs, resetVars>>
\* The name of the last call comes first: it tells most steps apart.
vars == <<last.op, impl, last, touch, lruVars, sizedVars, wrapVars, byteVars>>

(***************************************************************************)
(* container/list, as a sequence of entries, front first.                  *)
(***************************************************************************)
\* The position of the element holding key, 0 when there is none.
IndexOf(l, key) ==
    IF \E i \in 1..Len(l) : l[i].key = key
    THEN CHOOSE i \in 1..Len(l) : l[i].key = key /\ \A j \in 1..(i-1) : l[j].key # key
    ELSE 0

\* list.Remove
ListRemove(l, i) == [j \in 1..(Len(l)-1) |-> IF j < i THEN l[j] ELSE l[j+1]]

\* list.MoveToFront
ListMoveToFront(l, i) == <<l[i]>> \o ListRemove(l, i)

\* list.PushFront
ListPushFront(l, e) == <<e>> \o l

KeysOf(l) == {l[i].key : i \in 1..Len(l)}

(***************************************************************************)
(* The observation history: which call came last, and the order of last    *)
(* touches of the live keys.                                               *)
(***************************************************************************)
\* The keys of the store's lookup map.
Live ==
    IF impl = "lru" THEN elements
    ELSE IF impl = "sized" THEN items
    ELSE IF impl = "container" THEN {containerCache.order[i].key :
                                        i \in 1..Len(containerCache.order)}
    ELSE UNION {DOMAIN shards[i].items : i \in DOMAIN shards}

\* The keys of the store's lookup map after the step (impl never changes).
LiveAfter ==
    IF impl = "lru" THEN elements'
    ELSE IF impl = "sized" THEN items'
    ELSE IF impl = "container" THEN {containerCache'.order[i].key :
                                        i \in 1..Len(containerCache'.order)}
    ELSE UNION {DOMAIN shards'[i].items : i \in DOMAIN shards'}

\* A call: its name, its key and value arguments, and what it returned
\* (found, ret).  removed counts the keys it took out of the store.  echo
\* says that it is a Get of the key that the call right before it Put (Set),
\* and sent is then the value that call was given.
Call(op, key, val, found, ret) ==
    LET echo == op = "Get" /\ last.op \in {"Put", "Set"} /\ last.key = key
    IN  [op |-> op, key |-> key, val |-> val, found |-> found, ret |-> ret,
         removed |-> Cardinality(Live \ LiveAfter),
         echo |-> echo, sent |-> IF echo THEN last.val ELSE None]

SeqWithout(s, k) == SelectSeq(s, LAMBDA x : x # k)

\* key was touched; only the keys in live are kept.
Touched(key, live) == SelectSeq(<<key>> \o SeqWithout(touch, key), LAMBDA x : x \in live)

\* nothing was touched; only the keys in live are kept.
Untouched(live) == SelectSeq(touch, LAMBDA x : x \in live)

(***************************************************************************)
(* lru/lru.go: Cache                                                       *)
(***************************************************************************)
\* if size <= 0 { size = 1 }
NormCapacity(n) == IF n <= 0 THEN 1 ELSE n

NewCache(n) ==
    /\ size = NormCapacity(n)
    /\ elements = {}
    /\ order = <<>>

\* removeElement: delete(c.elements, e.key); c.order.Remove(elem)
RemoveElement(els, ord, i) ==
    [elements |-> els \ {ord[i].key}, order |-> ListRemove(ord, i)]

\* oldest := c.order.Back()
LruVictim(ord) == Len(ord)

LruUpdateKeepsValue(ord, i, value) == ListMoveToFront(ord, i)

\* Put of a present key: elem.Value.(*entry).value = value; MoveToFront(elem)
LruUpdate(ord, i, value) == ListMoveToFront([ord EXCEPT ![i].value = value], i)

\* The map and the list of a Cache c (size, elements, order) after Put.
PutOn(c, key, value) ==
    IF key \in c.elements
    THEN [elements |-> c.elements,
          order |-> LruUpdate(c.order, IndexOf(c.order, key), value)]
    ELSE LET c1 == IF Len(c.order) >= c.size /\ Len(c.order) > 0
                   THEN RemoveElement(c.elements, c.order, LruVictim(c.order))
                   ELSE [elements |-> c.elements, order |-> c.order]
         IN  [elements |-> c1.elements \cup {key},
              order |-> ListPushFront(c1.order, [key |-> key, value |-> value])]

\* The Cache of the state.
ThisCache == [size |-> size, elements |-> elements, order |-> order]

LruPut(key, value) ==
    /\ impl = "lru"
    /\ order' = PutOn(ThisCache, key, value).order
    /\ elements' = PutOn(ThisCache, key, value).elements
    /\ touch' = Touched(key, elements')
    /\ last' = Call("Put", key, value, FALSE, None)
    /\ UNCHANGED <<impl, size, sizedVars, wrapVars, byteVars>>

LruGetNoTouch(ord, i) == ord

\* c.order.MoveToFront(elem) of Get
LruGetTouch(ord, i) == ListMoveToFront(ord, i)

\* The list of a Cache c after Get, and what Get returns.
GetOn(c, key) ==
    IF key \in c.elements
    THEN LET i == IndexOf(c.order, key)
         IN  [order |-> LruGetTouch(c.order, i), found |-> TRUE, ret |-> c.order[i].value]
    ELSE [order |-> c.order, found |-> FALSE, ret |-> None]

LruGet(key) ==
    /\ impl = "lru"
    /\ UNCHANGED <<impl, size, elements, sizedVars, wrapVars, byteVars>>
    /\ order' = GetOn(ThisCache, key).order
    /\ last' = Call("Get", key, None, GetOn(ThisCache, key).found, GetOn(ThisCache, key).ret)
    /\ touch' = (IF key \in elements THEN Touched(key, elements) ELSE touch)

\* The map and the list of a Cache c after Evict.
EvictOn(c, key) ==
    IF key \in c.elements
    THEN RemoveElement(c.elements, c.order, IndexOf(c.order, key))
    ELSE [elements |-> c.elements, order |-> c.order]

LruEvict(key) ==
    /\ impl = "lru"
    /\ elements' = EvictOn(ThisCache, key).elements
    /\ order' = EvictOn(ThisCache, key).order
    /\ touch' = Untouched(elements')
    /\ last' = Call("Evict", key, None, FALSE, None)
    /\ UNCHANGED <<impl, size, sizedVars, wrapVars, byteVars>>

LruFlushKeeps(ord) == ord

\* c.order.Init()
LruFlushOrder(ord) == <<>>

LruFlush ==
    /\ impl = "lru"
    /\ elements' = {}
    /\ order' = LruFlushOrder(order)
    /\ touch' = <<>>
    /\ last' = Call("Flush", None, None, FALSE, None)
    /\ UNCHANGED <<impl, size, sizedVars, wrapVars, byteVars>>

\* Len: c.order.Len()
LruLen == Len(order)

\* PortionFilled: float64(c.order.Len()) / float64(c.size), as the fraction
\* <<numerator, denominator>>.
LruPortionFilled == <<Len(order), size>>

(***************************************************************************)
(* SizedCache                                                              *)
(***************************************************************************)
SizeFns == {"unit", "value"}

\* if sizeFn == nil { sizeFn = func(K, V) int { return 1 } }
NewSizedCache(n, fn) ==
    /\ maxSize = NormCapacity(n)
    /\ sizeFn = IF fn = "nil" THEN "unit" ELSE fn
    /\ currentSize = 0
    /\ items = {}
    /\ lru = <<>>

\* A sizing function that weighs every entry by its value.
SizeByValue(key, value) == value

\* c.sizeFn(key, value)
SizeOf(key, value) == IF sizeFn = "unit" THEN 1 ELSE value

\* flushLocked
FlushLocked == [items |-> {}, lru |-> <<>>, currentSize |-> 0]

\* An eviction that empties the store as soon as the entry does not fit.
SizedEvictAll(c, entrySize) ==
    IF c.currentSize > maxSize - entrySize /\ Len(c.lru) > 0
    THEN [items |-> {}, lru |-> <<>>, currentSize |-> 0]
    ELSE c

\* The loop of Put: while currentSize > maxSize-entrySize, remove the back.
RECURSIVE SizedEvictLoop(_, _)
SizedEvictLoop(c, entrySize) ==
    IF c.currentSize > maxSize - entrySize /\ Len(c.lru) > 0
    THEN LET back == c.lru[Len(c.lru)]
         IN  SizedEvictLoop([items |-> c.items \ {back.key},
                             lru |-> ListRemove(c.lru, Len(c.lru)),
                             currentSize |-> c.currentSize - back.size], entrySize)
    ELSE c

SizedPut(key, value) ==
    /\ impl = "sized"
    /\ LET entrySize == SizeOf(key, value)
           cur == [items |-> items, lru |-> lru, currentSize |-> currentSize]
           c1 == IF key \in items
                 THEN LET i == IndexOf(lru, key)
                      IN  [items |-> items \ {key},
                           lru |-> ListRemove(lru, i),
                           currentSize |-> currentSize - lru[i].size]
                 ELSE cur
           c2 == SizedEvictLoop(c1, entrySize)
           c3 == IF entrySize > maxSize
                 THEN FlushLocked
                 ELSE [items |-> c2.items \cup {key},
                       lru |-> ListPushFront(c2.lru, [key |-> key, value |-> value,
                                                      size |-> entrySize]),
                       currentSize |-> c2.currentSize + entrySize]
       IN  /\ items' = c3.items
           /\ lru' = c3.lru
           /\ currentSize' = c3.currentSize
           /\ touch' = IF entrySize > maxSize THEN Untouched(c3.items)
                       ELSE Touched(key, c3.items)
    /\ last' = Call("Put", key, value, FALSE, None)
    /\ UNCHANGED <<impl, maxSize, sizeFn, lruVars, wrapVars, byteVars>>

SizedGet(key) ==
    /\ impl = "sized"
    /\ UNCHANGED <<impl, maxSize, sizeFn, currentSize, items, lruVars, wrapVars, byteVars>>
    /\ IF key \in items
       THEN LET i == IndexOf(lru, key)
            IN  /\ lru' = ListMoveToFront(lru, i)
                /\ last' = Call("Get", key, None, TRUE, lru[i].value)
                /\ touch' = Touched(key, items)
       ELSE /\ lru' = lru
            /\ last' = Call("Get", key, None, FALSE, None)
            /\ touch' = touch

SizedEvict(key) ==
    /\ impl = "sized"
    /\ IF key \in items
       THEN LET i == IndexOf(lru, key)
            IN  /\ currentSize' = currentSize - lru[i].size
                /\ items' = items \ {key}
                /\ lru' = ListRemove(lru, i)
       ELSE UNCHANGED <<currentSize, items, lru>>
    /\ touch' = Untouched(items')
    /\ last' = Call("Evict", key, None, FALSE, None)
    /\ UNCHANGED <<impl, maxSize, sizeFn, lruVars, wrapVars, byteVars>>

SizedFlush ==
    /\ impl = "sized"
    /\ items' = FlushLocked.items
    /\ lru' = FlushLocked.lru
    /\ currentSize' = FlushLocked.currentSize
    /\ touch' = <<>>
    /\ last' = Call("Flush", None, None, FALSE, None)
    /\ UNCHANGED <<impl, maxSize, sizeFn, lruVars, wrapVars, byteVars>>

\* Len: len(c.items)
SizedLen == Cardinality(items)

\* PortionFilled: 0 if maxSize == 0, else currentSize / maxSize
SizedPortionFilled == IF maxSize = 0 THEN <<0, 1>> ELSE <<currentSize, maxSize>>

(***************************************************************************)
(* github.com/luxfi/container: the LRU the cache of lru/cache.go wraps.     *)
(* Its code is not part of this repository; it is modelled from sections   *)
(* 4.1 and 4.3 of the specification: a count-bounded recency store with an *)
(* optional eviction callback.                                             *)
(***************************************************************************)
NewLRUCache(n) == [size |-> n, order |-> <<>>, onEvict |-> FALSE]

NewLRUCacheWithOnEvict(n, f) == [size |-> n, order |-> <<>>, onEvict |-> f]

\* Put: update in place and move to head, or evict from the tail while the
\* store is over budget (invoking the callback), then insert at head.
\* The result holds the store and the callback invocations made.
RECURSIVE ContainerEvictLoop(_, _)
ContainerEvictLoop(c, cbs) ==
    IF Len(c.order) + 1 > c.size /\ Len(c.order) > 0
    THEN LET back == c.order[Len(c.order)]
         IN  ContainerEvictLoop([c EXCEPT !.order = ListRemove(c.order, Len(c.order))],
                                IF c.onEvict THEN Append(cbs, <<back.key, back.value>>)
                                ELSE cbs)
    ELSE [cache |-> c, cbs |-> cbs]

ContainerPut(c, key, value) ==
    LET i == IndexOf(c.order, key)
    IN  IF i > 0
        THEN [cache |-> [c EXCEPT !.order =
                            ListMoveToFront([c.order EXCEPT ![i].value = value], i)],
              cbs |-> <<>>]
        ELSE LET r == ContainerEvictLoop(c, <<>>)
             IN  [cache |-> [r.cache EXCEPT !.order =
                               ListPushFront(r.cache.order, [key |-> key, value |-> value])],
                  cbs |-> r.cbs]

\* Get: a hit moves the entry to head.
ContainerGet(c, key) ==
    LET i == IndexOf(c.order, key)
    IN  IF i > 0
        THEN [cache |-> [c EXCEPT !.order = ListMoveToFront(c.order, i)],
              found |-> TRUE, value |-> c.order[i].value]
        ELSE [cache |-> c, found |-> FALSE, value |-> None]

\* Delete: explicit removal, no callback.
ContainerDelete(c, key) ==
    LET i == IndexOf(c.order, key)
    IN  IF i > 0 THEN [c EXCEPT !.order = ListRemove(c.order, i)] ELSE c

ContainerLen(c) == Len(c.order)

(***************************************************************************)
(* lru/cache.go: Cache, the wrapper of the container LRU.  mu is the       *)
(* wrapper's mutex: sync.Mutex is not reentrant, so a Lock by the          *)
(* goroutine that holds it never returns.                                  *)
(***************************************************************************)
\* NewCache / NewCacheWithOnEvict (f: whether a callback is given)
NewContainerCache(n, f) ==
    /\ containerCache = (IF f THEN NewLRUCacheWithOnEvict(NormCapacity(n), f)
                         ELSE NewLRUCache(NormCapacity(n)))
    /\ capacity = NormCapacity(n)
    /\ onEvict = f
    /\ mu = FALSE
    /\ cbCalls = <<>>

\* c.mu.Lock() returns only when the mutex is free.
MuLock == mu = FALSE

WrapPut(key, value) ==
    /\ impl = "container"
    /\ MuLock
    /\ LET r == ContainerPut(containerCache, key, value)
       IN  /\ containerCache' = r.cache
           /\ cbCalls' = r.cbs
           /\ touch' = Touched(key, KeysOf(r.cache.order))
    /\ last' = Call("Put", key, value, FALSE, None)
    /\ UNCHANGED <<impl, mu, capacity, onEvict, lruVars, sizedVars, byteVars>>

WrapGet(key) ==
    /\ impl = "container"
    /\ MuLock
    /\ LET r == ContainerGet(containerCache, key)
       IN  /\ containerCache' = r.cache
           /\ last' = Call("Get", key, None, r.found, r.value)
           /\ touch' = IF r.found THEN Touched(key, KeysOf(r.cache.order)) ELSE touch
    /\ cbCalls' = <<>>
    /\ UNCHANGED <<impl, mu, capacity, onEvict, lruVars, sizedVars, byteVars>>

\* Delete, and Evict which calls it
WrapDelete(key) ==
    /\ impl = "container"
    /\ MuLock
    /\ containerCache' = ContainerDelete(containerCache, key)
    /\ touch' = Untouched(KeysOf(containerCache'.order))
    /\ cbCalls' = <<>>
    /\ last' = Call("Evict", key, None, FALSE, None)
    /\ UNCHANGED <<impl, mu, capacity, onEvict, lruVars, sizedVars, byteVars>>

\* The store Clear installs: container.NewLRUCache[K, V](c.capacity)
ClearedCache(n, f) == NewLRUCache(n)

\* Clear, and Flush which calls it
WrapClear ==
    /\ impl = "container"
    /\ MuLock
    /\ containerCache' = ClearedCache(capacity, onEvict)
    /\ touch' = <<>>
    /\ cbCalls' = <<>>
    /\ last' = Call("Flush", None, None, FALSE, None)
    /\ UNCHANGED <<impl, mu, capacity, onEvict, lruVars, sizedVars, byteVars>>

\* Contains: _, ok := c.containerCache.Get(key)
WrapContains(key) ==
    /\ impl = "container"
    /\ MuLock
    /\ LET r == ContainerGet(containerCache, key)
       IN  /\ containerCache' = r.cache
           /\ last' = Call("Contains", key, None, r.found, None)
    /\ touch' = touch
    /\ cbCalls' = <<>>
    /\ UNCHANGED <<impl, mu, capacity, onEvict, lruVars, sizedVars, byteVars>>

\* Len (and Size, which calls it) called while the mutex is in state held:
\* Lock, return c.containerCache.Len(), Unlock.  It returns nothing if the
\* mutex is held.
WrapLenCall(held) ==
    IF held THEN [returns |-> FALSE, value |-> None]
    ELSE [returns |-> TRUE, value |-> ContainerLen(containerCache)]

WrapLen ==
    /\ impl = "container"
    /\ WrapLenCall(mu).returns
    /\ cbCalls' = <<>>
    /\ UNCHANGED <<impl, touch, mu, containerCache, capacity, onEvict, lruVars, sizedVars, byteVars>>
    /\ last' = Call("Len", None, None, FALSE, WrapLenCall(mu).value)

\* PortionFilled: c.mu.Lock(); defer c.mu.Unlock(); current := float64(c.Len());
\* ... return current / capacity.  The call of c.Len() is made with c.mu held.
WrapPortionFilled ==
    /\ impl = "container"
    /\ MuLock
    /\ cbCalls' = <<>>
    /\ UNCHANGED <<impl, touch, containerCache, capacity, onEvict, lruVars, sizedVars, byteVars>>
    /\ LET r == WrapLenCall(TRUE)
       IN  IF r.returns
           THEN /\ mu' = FALSE
                /\ last' = Call("PortionFilled", None, None, FALSE,
                                IF capacity = 0
                                THEN [returned |-> TRUE, num |-> 0, den |-> 1]
                                ELSE [returned |-> TRUE, num |-> r.value, den |-> capacity])
           ELSE /\ mu' = TRUE
                /\ last' = Call("PortionFilled", None, None, FALSE,
                                [returned |-> FALSE, num |-> 0, den |-> 1])

(***************************************************************************)
(* metercacher: Cache, the decorator of a cache.Cacher.  After the wrapped  *)
(* cache's Put, Evict and Flush it calls the wrapped cache's Len() and      *)
(* PortionFilled() to set its gauges.  Its counters and gauges are kept by  *)
(* the metric library and have no part in the cache; the model keeps what   *)
(* the decorator does to the wrapped cache.  The decorated cache is the     *)
(* store impl names: lru/lru.go Cache, SizedCache or lru/cache.go Cache.    *)
(***************************************************************************)
\* c.Cacher.Len() and then c.Cacher.PortionFilled() on a lru/lru.go Cache or
\* a SizedCache: each locks, reads and unlocks, and returns.
GaugesReturn == TRUE

\* c.Cacher.Len() and then c.Cacher.PortionFilled() on a lru/cache.go Cache,
\* called with its mutex free: whether both return, and whether the mutex is
\* held afterwards.
WrapGauges ==
    LET len == WrapLenCall(FALSE)
        inner == WrapLenCall(TRUE)
    IN  [returns |-> len.returns /\ inner.returns, held |-> ~inner.returns]

\* The wrapped lru/cache.go Cache after the decorator's call: the store the
\* wrapped call leaves, and the mutex as the gauge calls leave it.
MeterWrap(op, key, val, cache, cbs, live) ==
    /\ impl = "container"
    /\ MuLock
    /\ containerCache' = cache
    /\ cbCalls' = cbs
    /\ mu' = WrapGauges.held
    /\ touch' = (IF op = "Put" THEN Touched(key, live) ELSE Untouched(live))
    /\ last' = Call(op, key, val, FALSE, None)
    /\ UNCHANGED <<impl, capacity, onEvict, lruVars, sizedVars, byteVars>>

\* Put: c.Cacher.Put(key, value); ...; c.Cacher.Len(); c.Cacher.PortionFilled()
MeterPut(key, value) ==
    \/ LruPut(key, value) /\ GaugesReturn
    \/ SizedPut(key, value) /\ GaugesReturn
    \/ LET r == ContainerPut(containerCache, key, value)
       IN  MeterWrap("Put", key, value, r.cache, r.cbs, KeysOf(r.cache.order))

\* Get: value, has := c.Cacher.Get(key); the counters; return value, has
MeterGet(key) ==
    \/ LruGet(key)
    \/ SizedGet(key)
    \/ WrapGet(key)

\* Evict: c.Cacher.Evict(key); c.Cacher.Len(); c.Cacher.PortionFilled()
MeterEvict(key) ==
    \/ LruEvict(key) /\ GaugesReturn
    \/ SizedEvict(key) /\ GaugesReturn
    \/ LET c1 == ContainerDelete(containerCache, key)
       IN  MeterWrap("Evict", key, None, c1, <<>>, KeysOf(c1.order))

\* Flush: c.Cacher.Flush(); c.Cacher.Len(); c.Cacher.PortionFilled()
MeterFlush ==
    \/ LruFlush /\ GaugesReturn
    \/ SizedFlush /\ GaugesReturn
    \/ MeterWrap("Flush", None, None, ClearedCache(capacity, onEvict), <<>>, {})

(***************************************************************************)
(* bytecache: Cache, a fixed array of independently locked LRU shards.     *)
(* A shard's entries are heap objects linked by prev/next pointers; the    *)
(* model keeps them in the shard's arena ent, addressed by handles, with   *)
(* None for nil.  A stored value is a byte buffer: one of its own          *)
(* (own, with its bytes) or a reference to a caller's buffer.              *)
(***************************************************************************)
numShards == 256
shardMask == numShards - 1

\* The maxBytes given to New.
MaxBytesChoices == {-1, 0, 100} \cup {numShards * j : j \in 2..MaxShardBudget}

RECURSIVE BitXor(_, _)
BitXor(a, b) ==
    IF a = 0 THEN b ELSE IF b = 0 THEN a
    ELSE ((a + b) % 2) + 2 * BitXor(a \div 2, b \div 2)

RECURSIVE BitAnd(_, _)
BitAnd(a, b) ==
    IF a = 0 \/ b = 0 THEN 0
    ELSE ((a % 2) * (b % 2)) + 2 * BitAnd(a \div 2, b \div 2)

\* h := uint8(0); for _, b := range key { h ^= b }
RECURSIVE XorFold(_, _)
XorFold(h, key) ==
    IF key = <<>> THEN h ELSE XorFold(BitXor(h, Head(key)) % 256, Tail(key))

ShardOfLength(key) == Len(key) % numShards

\* shard: c.shards[h&shardMask]
ShardOf(key) == BitAnd(XorFold(0, key), shardMask)

\* perShard := int64(maxBytes) / numShards, floored at 1
PerShard(n) ==
    LET m == IF n <= 0 THEN 1 ELSE n
        q == m \div numShards
    IN  IF q < 1 THEN 1 ELSE q

\* The shards the keys of the model select.  The other shards stay as New
\* makes them whatever is called, and the state leaves them out.
UsedShards == {ShardOf(k) : k \in ByteKeys \cup SameShardKeys \cup BufKeys}

EmptyShard(budget) ==
    [items |-> <<>>, ent |-> <<>>, head |-> None, tail |-> None,
     currentSize |-> 0, maxSize |-> budget]

\* New
NewByteCache(n) ==
    /\ maxBytes = (IF n <= 0 THEN 1 ELSE n)
    /\ shards = [i \in UsedShards |-> EmptyShard(PerShard(n))]
    /\ getCalls = 0
    /\ setCalls = 0
    /\ misses = 0
    /\ bufs = InitialBufs

\* A counter that ignores its increments.
AddNone(c) == c

\* atomic.AddUint64(&c, 1)
AtomicAdd(c) == IF c < MaxCount THEN c + 1 ELSE c

\* The bytes of a value buffer.
Bytes(v) == IF v.own THEN v.data ELSE bufs[v.ref]

SetAliases(b) == [own |-> FALSE, ref |-> b]

\* v := append([]byte(nil), value...): a buffer of the entry's own
SetCopy(b) == [own |-> TRUE, data |-> bufs[b]]

\* A handle for a new entry of shard s.
NewHandle(s) == CHOOSE h \in 1..(Cardinality(DOMAIN s.ent) + 1) : h \notin DOMAIN s.ent

HasKey(s, k) == k \in DOMAIN s.items

MapPut(f, k, v) == [x \in (DOMAIN f) \cup {k} |-> IF x = k THEN v ELSE f[x]]

MapDelete(f, k) == [x \in (DOMAIN f) \ {k} |-> f[x]]

\* pushFront
PushFront(s, e) ==
    LET ent1 == [s.ent EXCEPT ![e].prev = None, ![e].next = s.head]
        ent2 == IF s.head # None THEN [ent1 EXCEPT ![s.head].prev = e] ELSE ent1
    IN  [s EXCEPT !.ent = ent2, !.head = e,
                  !.tail = IF s.tail = None THEN e ELSE s.tail]

\* An unlink that leaves the prev pointer of the entry behind e as it was.
UnlinkOneWay(s, e) ==
    LET p == s.ent[e].prev
        n == s.ent[e].next
        ent1 == IF p # None THEN [s.ent EXCEPT ![p].next = n] ELSE s.ent
    IN  [s EXCEPT !.ent = [ent1 EXCEPT ![e].prev = None, ![e].next = None],
                  !.head = IF p # None THEN s.head ELSE n,
                  !.tail = IF n # None THEN s.tail ELSE p]

\* unlink
Unlink(s, e) ==
    LET p == s.ent[e].prev
        n == s.ent[e].next
        ent1 == IF p # None THEN [s.ent EXCEPT ![p].next = n] ELSE s.ent
        head1 == IF p # None THEN s.head ELSE n
        ent2 == IF n # None THEN [ent1 EXCEPT ![n].prev = p] ELSE ent1
        tail1 == IF n # None THEN s.tail ELSE p
    IN  [s EXCEPT !.ent = [ent2 EXCEPT ![e].prev = None, ![e].next = None],
                  !.head = head1, !.tail = tail1]

\* moveToFront
MoveToFront(s, e) == IF s.head = e THEN s ELSE PushFront(Unlink(s, e), e)

\* An entry no pointer refers to any more is dropped from the arena.
Collect(s, e) == [s EXCEPT !.ent = MapDelete(s.ent, e)]

\* The keys of a shard's list from head to tail.
RECURSIVE WalkFrom(_, _, _)
WalkFrom(s, e, fuel) ==
    IF e = None \/ fuel = 0 THEN <<>>
    ELSE <<s.ent[e].key>> \o WalkFrom(s, s.ent[e].next, fuel - 1)

Walk(s) == WalkFrom(s, s.head, Cardinality(DOMAIN s.ent) + 1)

\* The keys stored in the cache, over all shards.
ByteLive == UNION {DOMAIN shards[i].items : i \in DOMAIN shards}

\* The loop of Set: evict from the tail until there is space.
RECURSIVE SetEvictLoop(_, _)
SetEvictLoop(s, entrySize) ==
    IF s.currentSize + entrySize > s.maxSize /\ s.tail # None
    THEN LET old == s.tail
             s1 == Unlink(s, old)
             s2 == [s1 EXCEPT !.currentSize = s1.currentSize - s1.ent[old].size,
                              !.items = MapDelete(s1.items, s1.ent[old].key)]
         IN  SetEvictLoop(Collect(s2, old), entrySize)
    ELSE s

\* Set, from s.mu.Lock() on: the shard it leaves.  k is the key, v the copy.
SetLocked(s, k, v) ==
    LET entrySize == Len(k) + Len(Bytes(v))
    IN  IF entrySize > s.maxSize THEN s
        ELSE IF HasKey(s, k)
        THEN LET e == s.items[k]
                 s1 == [s EXCEPT !.currentSize = s.currentSize - s.ent[e].size]
                 s2 == [s1 EXCEPT !.ent[e].value = v, !.ent[e].size = entrySize]
                 s3 == [s2 EXCEPT !.currentSize = s2.currentSize + entrySize]
             IN  MoveToFront(s3, e)
        ELSE LET s1 == SetEvictLoop(s, entrySize)
                 e == NewHandle(s1)
                 s2 == [s1 EXCEPT !.ent = MapPut(s1.ent, e,
                              [key |-> k, value |-> v, size |-> entrySize,
                               prev |-> None, next |-> None]),
                           !.items = MapPut(s1.items, k, e)]
                 s3 == PushFront(s2, e)
             IN  [s3 EXCEPT !.currentSize = s3.currentSize + entrySize]

\* Set (and SetBig, which calls it); value is the caller's buffer b.
ByteSet(key, b) ==
    /\ impl = "byte"
    /\ setCalls' = AtomicAdd(setCalls)
    /\ LET i == ShardOf(key)
       IN  shards' = [shards EXCEPT ![i] = SetLocked(shards[i], key, SetCopy(b))]
    /\ touch' = IF HasKey(shards'[ShardOf(key)], key)
                   /\ Len(key) + Len(bufs[b]) <= shards[ShardOf(key)].maxSize
                THEN Touched(key, ByteLive')
                ELSE Untouched(ByteLive')
    /\ last' = Call("Set", key, bufs[b], FALSE, None)
    /\ UNCHANGED <<impl, resetVars, maxBytes, goVars, getCalls, misses, bufs, lruVars, sizedVars, wrapVars>>

\* append(dst[:0], val...) with dst the caller's buffer (None for nil): the
\* buffer the result is in and its bytes.  The result is in dst if val fits
\* in it, nil if dst is nil and val is empty, and else in a buffer that
\* append allocates.
AppendTo(dst, val) ==
    IF dst # None /\ Len(val) <= Len(bufs[dst]) THEN [buf |-> dst, data |-> val]
    ELSE IF dst = None /\ val = <<>> THEN [buf |-> None, data |-> val]
    ELSE [buf |-> ResultBuf, data |-> val]

\* The caller's buffers after the result r was written.
Written(r) ==
    IF r.buf = None THEN bufs
    ELSE IF r.buf = ResultBuf /\ Len(r.data) > Len(bufs[ResultBuf])
    THEN [bufs EXCEPT ![ResultBuf] = r.data]
    ELSE [bufs EXCEPT ![r.buf] =
            [j \in 1..Len(bufs[r.buf]) |-> IF j <= Len(r.data) THEN r.data[j]
                                                              ELSE bufs[r.buf][j]]]

\* Get (and GetBig) and HasGet, which differ in what they return on a miss
\* only: HasGet also returns found.
ByteLookup(dst, key) ==
    /\ impl = "byte"
    /\ getCalls' = AtomicAdd(getCalls)
    /\ LET i == ShardOf(key)
           s == shards[i]
       IN  IF HasKey(s, key)
           THEN LET e == s.items[key]
                    r == AppendTo(dst, Bytes(s.ent[e].value))
                IN  /\ shards' = [shards EXCEPT ![i] = MoveToFront(s, e)]
                    /\ bufs' = Written(r)
                    /\ misses' = misses
                    /\ last' = Call("Get", key, None, TRUE, r)
                    /\ touch' = Touched(key, ByteLive)
           ELSE /\ misses' = AtomicAdd(misses)
                /\ UNCHANGED <<shards, bufs, touch>>
                /\ last' = Call("Get", key, None, FALSE, [buf |-> dst, data |-> <<>>])
    /\ UNCHANGED <<impl, resetVars, maxBytes, goVars, setCalls, lruVars, sizedVars, wrapVars>>

ByteGet(dst, key) == ByteLookup(dst, key)

ByteHasGet(dst, key) == ByteLookup(dst, key)

\* The caller writes byte v at index j of its buffer b.
MutateBuf(b, j, v) ==
    /\ impl = "byte"
    /\ j \in 1..Len(bufs[b])
    /\ bufs[b][j] # v
    /\ bufs' = [bufs EXCEPT ![b][j] = v]
    /\ UNCHANGED <<impl, touch, shards, resetVars, maxBytes, goVars, getCalls, setCalls, misses,
                   lruVars, sizedVars, wrapVars>>
    /\ last' = Call("Mutate", None, None, FALSE, None)

\* s.mu.Lock() of Reset: shard i is locked from Reset's lock step to its
\* unlock step.
WriteLocked(i) == reset.at = i /\ reset.pc \in {"items", "list", "size", "unlock"}

RLockNoWait(i) == TRUE

\* s.mu.RLock() returns once no writer holds the lock of shard i.
RLockReady(i) == ~WriteLocked(i)

\* Has
ByteHas(key) ==
    /\ impl = "byte"
    /\ RLockReady(ShardOf(key))
    /\ UNCHANGED <<impl, touch, shards, maxBytes, goVars, getCalls, setCalls, misses, bufs,
                   reset, pre, lruVars, sizedVars, wrapVars>>
    /\ LET ok == HasKey(shards[ShardOf(key)], key)
           o == [key |-> key, found |-> ok]
       IN  /\ last' = Call("Has", key, None, ok, None)
           /\ seen' = IF reset.pc = "idle" THEN seen
                      ELSE IF seen = <<>> THEN <<o>> ELSE <<seen[Len(seen)], o>>

DelKeepsSize(s, k) ==
    IF HasKey(s, k)
    THEN Collect([Unlink(s, s.items[k]) EXCEPT !.items = MapDelete(s.items, k)], s.items[k])
    ELSE s

\* Del, from s.mu.Lock() on
DelLocked(s, k) ==
    IF HasKey(s, k)
    THEN LET e == s.items[k]
             s1 == Unlink(s, e)
             s2 == [s1 EXCEPT !.currentSize = s1.currentSize - s1.ent[e].size]
         IN  Collect([s2 EXCEPT !.items = MapDelete(s2.items, k)], e)
    ELSE s

ByteDel(key) ==
    /\ impl = "byte"
    /\ LET i == ShardOf(key)
       IN  shards' = [shards EXCEPT ![i] = DelLocked(shards[i], key)]
    /\ touch' = Untouched(ByteLive')
    /\ last' = Call("Del", key, None, FALSE, None)
    /\ UNCHANGED <<impl, resetVars, maxBytes, goVars, getCalls, setCalls, misses, bufs,
                   lruVars, sizedVars, wrapVars>>

\* s.items = make(map[string]*byteEntry)
ResetItems(s) == [s EXCEPT !.items = <<>>]

\* s.head, s.tail = nil, nil: nothing refers to the entries any more
ResetList(s) == [s EXCEPT !.head = None, !.tail = None, !.ent = <<>>]

\* s.currentSize = 0
ResetSize(s) == [s EXCEPT !.currentSize = 0]

\* Reset of one shard, under its lock
ResetLocked(s) == ResetSize(ResetList(ResetItems(s)))

\* Reset
ByteReset ==
    /\ impl = "byte"
    /\ shards' = [i \in DOMAIN shards |-> ResetLocked(shards[i])]
    /\ touch' = <<>>
    /\ last' = Call("Reset", None, None, FALSE, None)
    /\ UNCHANGED <<impl, resetVars, maxBytes, goVars, getCalls, setCalls, misses, bufs,
                   lruVars, sizedVars, wrapVars>>

\* Reset run by a goroutine of its own, statement by statement.  The shards
\* no key of the model selects are empty and stay so: the loop's turns on them
\* are taken together with the step that reaches the next shard.
ShardsFrom(i) == {j \in DOMAIN shards : j >= i}
NextShard(i) ==
    IF ShardsFrom(i) = {} THEN None
    ELSE CHOOSE j \in ShardsFrom(i) : \A x \in ShardsFrom(i) : j <= x

ResetFrame ==
    UNCHANGED <<impl, maxBytes, goVars, getCalls, setCalls, misses, bufs, seen,
                lruVars, sizedVars, wrapVars>>

\* for _, s := range c.shards: the call begins at the first shard
ResetBegin ==
    /\ impl = "byte"
    /\ reset.pc = "idle"
    /\ reset' = [pc |-> "lock", at |-> NextShard(0)]
    /\ pre' = shards
    /\ seen' = <<>>
    /\ UNCHANGED <<impl, touch, shards, maxBytes, goVars, getCalls, setCalls, misses, bufs,
                   lruVars, sizedVars, wrapVars>>
    /\ last' = Call("Reset.begin", None, None, FALSE, None)

\* One statement of the loop's body on shard reset.at.
ResetStep ==
    /\ impl = "byte"
    /\ reset.pc # "idle"
    /\ LET i == reset.at
           s == shards[i]
       IN  \/ /\ reset.pc = "lock"
              /\ reset' = [reset EXCEPT !.pc = "items"]
              /\ shards' = shards
           \/ /\ reset.pc = "items"
              /\ reset' = [reset EXCEPT !.pc = "list"]
              /\ shards' = [shards EXCEPT ![i] = ResetItems(s)]
           \/ /\ reset.pc = "list"
              /\ reset' = [reset EXCEPT !.pc = "size"]
              /\ shards' = [shards EXCEPT ![i] = ResetList(s)]
           \/ /\ reset.pc = "size"
              /\ reset' = [reset EXCEPT !.pc = "unlock"]
              /\ shards' = [shards EXCEPT ![i] = ResetSize(s)]
           \/ /\ reset.pc = "unlock"
              /\ reset' = IF NextShard(i + 1) = None
                          THEN [pc |-> "idle", at |-> None]
                          ELSE [pc |-> "lock", at |-> NextShard(i + 1)]
              /\ shards' = shards
    /\ touch' = Untouched(LiveAfter)
    /\ pre' = pre
    /\ ResetFrame
    /\ last' = Call("Reset." \o reset.pc, None, None, FALSE, None)

\* The sum of f over S.
RECURSIVE SumOver(_, _)
SumOver(f, S) ==
    IF S = {} THEN 0
    ELSE LET x == CHOOSE y \in S : TRUE IN f[x] + SumOver(f, S \ {x})

\* UpdateStats
Stats ==
    [EntriesCount |-> SumOver([i \in DOMAIN shards |-> Cardinality(DOMAIN shards[i].items)],
                              DOMAIN shards),
     BytesSize |-> SumOver([i \in DOMAIN shards |-> shards[i].currentSize], DOMAIN shards),
     Collisions |-> 0,
     GetCalls |-> getCalls, SetCalls |-> setCalls, Misses |-> misses]

ByteUpdateStats ==
    /\ impl = "byte"
    /\ UNCHANGED <<impl, touch, byteVars, lruVars, sizedVars, wrapVars>>
    /\ last' = Call("UpdateStats", None, None, FALSE, Stats)

(***************************************************************************)
(* bytecache with concurrent callers.  Each goroutine makes one call at a  *)
(* time, statement by statement: an atomic add, a critical section of a    *)
(* shard (from its Lock to its Unlock, which no other goroutine can enter) *)
(* and what the call does after the Unlock are steps of their own.         *)
(***************************************************************************)
\* What a lookup of key finds stored: whether it is there, and its bytes.
Stored(key) ==
    LET s == shards[ShardOf(key)]
    IN  IF HasKey(s, key) THEN <<TRUE, Bytes(s.ent[s.items[key]].value)>>
        ELSE <<FALSE, <<>>>>

NoVal == [own |-> TRUE, data |-> <<>>]
NoSnap == [EntriesCount |-> 0, BytesSize |-> 0, Collisions |-> 0,
           GetCalls |-> 0, SetCalls |-> 0, Misses |-> 0]

\* A goroutine's locals: the call and where it is, its key, val (the v of
\* Set, the val of Get), the shard a loop is at, the Stats being filled; and
\* atLock, the bytes stored for the key when Get held the lock, and raced,
\* whether they were no longer stored when Get made its copy; began, the
\* calls begun before this one, and quiet, whether no other call was running
\* when this one began.
IdleProc == [pc |-> "idle", op |-> "none", key |-> <<>>, val |-> NoVal, at |-> None,
             snap |-> NoSnap, atLock |-> <<>>, raced |-> FALSE,
             began |-> 0, quiet |-> TRUE]

\* A call begins: the goroutine is idle and calls are left.
CanBegin(p) == impl = "byte" /\ procs[p].pc = "idle" /\ started < MaxCalls

BeginWith(p, op, pc, key) ==
    [IdleProc EXCEPT !.op = op, !.pc = pc, !.key = key,
        !.began = started,
        !.quiet = \A q \in Procs : procs[q].pc = "idle"]

\* A counter of calls begun, counted like the cache's counters up to MaxCount.
Counted(c) == IF c < MaxCount THEN c + 1 ELSE c

ConcFrame == UNCHANGED <<impl, maxBytes, bufs, resetVars, lruVars, sizedVars, wrapVars>>

LateCopy(val, key) ==
    LET s == shards[ShardOf(key)]
    IN  IF HasKey(s, key) THEN Bytes(s.ent[s.items[key]].value) ELSE <<>>

\* append([]byte(nil), val...) with the val read under the lock
CopyOut(val, key) == Bytes(val)

\* No goroutine.
NoOne == "none"

\* The mu (sync.RWMutex) of a shard: w is the goroutine that has called
\* Lock and not yet Unlock, r the goroutines between RLock and RUnlock.  A
\* Lock call takes w when no other writer has it, and from then on no RLock
\* gets in; it returns when the readers that were in have left.  An RLock
\* call returns when no writer has w.
FreeLock == [w |-> NoOne, r |-> {}]

\* An Unlock that leaves the lock held.
UnlockKeeps(l, p) == l

\* s.mu.Lock() can take the lock; the lock then; and Lock has returned.
CanLock(l) == l.w = NoOne
Lock(l, p) == [l EXCEPT !.w = p]
WriteHeld(l, p) == l.w = p /\ l.r = {}

\* s.mu.Unlock()
Unlock(l, p) == [l EXCEPT !.w = NoOne]

\* s.mu.RLock() can return; the lock then.
CanRLock(l) == l.w = NoOne
RLock(l, p) == [l EXCEPT !.r = @ \cup {p}]

\* s.mu.RUnlock()
RUnlock(l, p) == [l EXCEPT !.r = @ \ {p}]

\* The shard whose mu the call of goroutine p takes next (the shard of its
\* key, or the shard its loop is at), and whether it takes it for reading.
LockAt(p) ==
    IF procs[p].op \in {"Reset", "UpdateStats"} THEN procs[p].at
    ELSE ShardOf(procs[p].key)
Reads(p) == procs[p].op \in {"Has", "UpdateStats"}

\* Goroutine p is inside the critical section of its call.
Held(p) ==
    /\ impl = "byte"
    /\ procs[p].pc = "in"
    /\ IF Reads(p) THEN p \in locks[LockAt(p)].r
       ELSE WriteHeld(locks[LockAt(p)], p)

\* The locks after goroutine p has left its critical section.
Released(p) ==
    [locks EXCEPT ![LockAt(p)] = IF Reads(p) THEN RUnlock(@, p) ELSE Unlock(@, p)]

\* s.mu.Lock() / s.mu.RLock() of any call
ConcAcquire(p) ==
    /\ impl = "byte"
    /\ procs[p].pc = "lock"
    /\ LET i == LockAt(p)
       IN  IF Reads(p)
           THEN /\ CanRLock(locks[i])
                /\ locks' = [locks EXCEPT ![i] = RLock(@, p)]
           ELSE /\ CanLock(locks[i])
                /\ locks' = [locks EXCEPT ![i] = Lock(@, p)]
    /\ procs' = [procs EXCEPT ![p].pc = "in"]
    /\ UNCHANGED <<shards, started, done, getCalls, setCalls, misses, touch, last>>
    /\ ConcFrame

\* Get / HasGet: atomic.AddUint64(&c.getCalls, 1)
ConcGetAdd(p, key) ==
    /\ CanBegin(p)
    /\ getCalls' = AtomicAdd(getCalls)
    /\ procs' = [procs EXCEPT ![p] = BeginWith(p, "Get", "lock", key)]
    /\ started' = started + 1
    /\ done' = [done EXCEPT !.gets = Counted(@)]
    /\ UNCHANGED <<shards, locks, setCalls, misses, touch, last>>
    /\ ConcFrame

\* Get / HasGet: the critical section, up to s.mu.Unlock()
ConcGetLocked(p) ==
    /\ Held(p)
    /\ procs[p].op = "Get"
    /\ locks' = Released(p)
    /\ LET key == procs[p].key
           i == ShardOf(key)
           s == shards[i]
       IN  IF HasKey(s, key)
           THEN /\ shards' = [shards EXCEPT ![i] = MoveToFront(s, s.items[key])]
                /\ procs' = [procs EXCEPT ![p].pc = "copy",
                                          ![p].val = s.ent[s.items[key]].value,
                                          ![p].atLock = Bytes(s.ent[s.items[key]].value)]
                /\ touch' = Touched(key, ByteLive)
                /\ done' = done
           ELSE /\ shards' = shards
                /\ procs' = [procs EXCEPT ![p].pc = "miss"]
                /\ touch' = touch
                /\ done' = [done EXCEPT !.misses = Counted(@)]
    /\ UNCHANGED <<started, getCalls, setCalls, misses, last>>
    /\ ConcFrame

\* Get / HasGet after the Unlock: the copy of val and the return, or
\* atomic.AddUint64(&c.misses, 1) and the return.
ConcGetReturn(p) ==
    /\ impl = "byte"
    /\ procs[p].op = "Get" /\ procs[p].pc \in {"copy", "miss"}
    /\ UNCHANGED <<shards, locks, started, done, getCalls, setCalls, touch>>
    /\ ConcFrame
    /\ LET key == procs[p].key
           hit == procs[p].pc = "copy"
           data == IF hit THEN CopyOut(procs[p].val, key) ELSE <<>>
       IN  /\ misses' = (IF hit THEN misses ELSE AtomicAdd(misses))
           /\ procs' = [procs EXCEPT ![p].pc = "idle",
                           ![p].raced = hit /\ Stored(key) # <<TRUE, procs[p].atLock>>]
           /\ last' = Call("Get", key, None, hit,
                           [buf |-> IF data = <<>> THEN None ELSE ResultBuf, data |-> data])

\* Set: atomic.AddUint64(&c.setCalls, 1); v := append([]byte(nil), value...)
ConcSetAdd(p, key, b) ==
    /\ CanBegin(p)
    /\ setCalls' = AtomicAdd(setCalls)
    /\ procs' = [procs EXCEPT ![p] = [BeginWith(p, "Set", "lock", key) EXCEPT !.val = SetCopy(b)]]
    /\ started' = started + 1
    /\ done' = [done EXCEPT !.sets = Counted(@)]
    /\ UNCHANGED <<shards, locks, getCalls, misses, touch, last>>
    /\ ConcFrame

\* Set: the critical section; the deferred s.mu.Unlock() runs at each return
ConcSetLocked(p) ==
    /\ Held(p)
    /\ procs[p].op = "Set"
    /\ locks' = Released(p)
    /\ LET key == procs[p].key
           i == ShardOf(key)
           v == procs[p].val
       IN  /\ shards' = [shards EXCEPT ![i] = SetLocked(shards[i], key, v)]
           /\ touch' = IF Len(key) + Len(Bytes(v)) <= shards[i].maxSize
                       THEN Touched(key, ByteLive')
                       ELSE Untouched(ByteLive')
           /\ last' = Call("Set", key, Bytes(v), FALSE, None)
    /\ procs' = [procs EXCEPT ![p].pc = "idle"]
    /\ UNCHANGED <<started, done, getCalls, setCalls, misses>>
    /\ ConcFrame

\* A call of op that does nothing before it takes the lock begins.
ConcCall(p, op, key, at) ==
    /\ CanBegin(p)
    /\ procs' = [procs EXCEPT ![p] = [BeginWith(p, op, "lock", key) EXCEPT !.at = at]]
    /\ started' = started + 1
    /\ UNCHANGED <<shards, locks, touch, last, done, getCalls, setCalls, misses>>
    /\ ConcFrame

\* Del: s := c.shard(key)
ConcDel(p, key) == ConcCall(p, "Del", key, None)

\* Del: the critical section, up to s.mu.Unlock()
ConcDelLocked(p) ==
    /\ Held(p)
    /\ procs[p].op = "Del"
    /\ locks' = Released(p)
    /\ LET key == procs[p].key
       IN  /\ shards' = [shards EXCEPT ![ShardOf(key)] = DelLocked(shards[ShardOf(key)], key)]
           /\ touch' = Untouched(ByteLive')
           /\ last' = Call("Del", key, None, FALSE, None)
    /\ procs' = [procs EXCEPT ![p].pc = "idle"]
    /\ UNCHANGED <<started, done, getCalls, setCalls, misses>>
    /\ ConcFrame

\* Has: s := c.shard(key)
ConcHas(p, key) == ConcCall(p, "Has", key, None)

\* Has: the critical section, up to s.mu.RUnlock(), and the return
ConcHasLocked(p) ==
    /\ Held(p)
    /\ procs[p].op = "Has"
    /\ locks' = Released(p)
    /\ procs' = [procs EXCEPT ![p].pc = "idle"]
    /\ UNCHANGED <<shards, touch, started, done, getCalls, setCalls, misses>>
    /\ ConcFrame
    /\ last' = Call("Has", procs[p].key, None,
                    HasKey(shards[ShardOf(procs[p].key)], procs[p].key), None)

\* Reset: for _, s := range c.shards, at the first shard
ConcResetCall(p) == ConcCall(p, "Reset", <<>>, NextShard(0))

\* Reset: one turn of the loop, from after s.mu.Lock() to s.mu.Unlock(), and
\* on to the next shard or the return.
ConcReset(p) ==
    /\ Held(p)
    /\ procs[p].op = "Reset"
    /\ locks' = Released(p)
    /\ LET i == procs[p].at
           more == NextShard(i + 1) # None
       IN  /\ shards' = [shards EXCEPT ![i] = ResetLocked(shards[i])]
           /\ procs' = [procs EXCEPT ![p].pc = IF more THEN "lock" ELSE "idle",
                                     ![p].at = IF more THEN NextShard(i + 1) ELSE None]
           /\ touch' = Untouched(ByteLive')
           /\ last' = (IF more THEN last ELSE Call("Reset", None, None, FALSE, None))
    /\ UNCHANGED <<started, done, getCalls, setCalls, misses>>
    /\ ConcFrame

\* UpdateStats: for _, sh := range c.shards, at the first shard
ConcStatsCall(p) == ConcCall(p, "UpdateStats", <<>>, NextShard(0))

\* UpdateStats: one turn of the loop over the shards, from after
\* sh.mu.RLock() to sh.mu.RUnlock(), and on to the next shard or the loads.
ConcStatsScan(p) ==
    /\ Held(p)
    /\ procs[p].op = "UpdateStats"
    /\ locks' = Released(p)
    /\ LET i == procs[p].at
           more == NextShard(i + 1) # None
       IN  procs' = [procs EXCEPT
                        ![p].pc = IF more THEN "lock" ELSE "getCalls",
                        ![p].at = IF more THEN NextShard(i + 1) ELSE None,
                        ![p].snap.EntriesCount = @ + Cardinality(DOMAIN shards[i].items),
                        ![p].snap.BytesSize = @ + shards[i].currentSize]
    /\ UNCHANGED <<shards, touch, last, started, done, getCalls, setCalls, misses>>
    /\ ConcFrame

\* UpdateStats: s.GetCalls = atomic.LoadUint64(&c.getCalls), then SetCalls,
\* then Misses, each a step; the call returns after the last.
ConcStatsLoad(p) ==
    /\ impl = "byte"
    /\ procs[p].op = "UpdateStats" /\ procs[p].pc \in {"getCalls", "setCalls", "misses"}
    /\ UNCHANGED <<shards, locks, touch, started, done, getCalls, setCalls, misses>>
    /\ ConcFrame
    /\ \/ /\ procs[p].pc = "getCalls"
          /\ procs' = [procs EXCEPT ![p].pc = "setCalls", ![p].snap.GetCalls = getCalls]
          /\ last' = last
       \/ /\ procs[p].pc = "setCalls"
          /\ procs' = [procs EXCEPT ![p].pc = "misses", ![p].snap.SetCalls = setCalls]
          /\ last' = last
       \/ /\ procs[p].pc = "misses"
          /\ procs' = [procs EXCEPT ![p].pc = "idle", ![p].snap.Misses = misses]
          /\ last' = Call("UpdateStats", None, None, FALSE,
                          [procs[p].snap EXCEPT !.Misses = misses])

\* A step of the call goroutine p is in.
Continue(p) ==
    \/ ConcAcquire(p)
    \/ ConcGetLocked(p)
    \/ ConcGetReturn(p)
    \/ ConcSetLocked(p)
    \/ ConcDelLocked(p)
    \/ ConcHasLocked(p)
    \/ ConcReset(p)
    \/ ConcStatsScan(p)
    \/ ConcStatsLoad(p)

(***************************************************************************)
(* The specification                                                       *)
(***************************************************************************)
Init ==
    /\ impl \in Impls
    /\ last = [op |-> "New", key |-> None, val |-> None, found |-> FALSE, ret |-> None,
               removed |-> 0, echo |-> FALSE, sent |-> None]
    /\ touch = <<>>
    /\ \E n \in (IF impl = "lru" THEN Capacities ELSE {0}) : NewCache(n)
    /\ \E n \in (IF impl = "sized" THEN Capacities ELSE {0}) :
         \E fn \in (IF impl = "sized" THEN {"nil", "value"} ELSE {"nil"}) :
            NewSizedCache(n, fn)
    /\ \E n \in (IF impl = "container" THEN Capacities ELSE {0}) :
         \E f \in (IF impl = "container" THEN BOOLEAN ELSE {FALSE}) :
            NewContainerCache(n, f)
    /\ \E n \in (IF impl = "byte" THEN MaxBytesChoices ELSE {0}) : NewByteCache(n)
    /\ reset = [pc |-> "idle", at |-> None]
    /\ pre = shards
    /\ seen = <<>>
    /\ procs = [p \in Procs |-> IdleProc]
    /\ started = 0
    /\ done = [gets |-> 0, misses |-> 0, sets |-> 0]
    /\ locks = [i \in UsedShards |-> FreeLock]

NextLru ==
    \/ \E k \in Keys, v \in Values : LruPut(k, v)
    \/ \E k \in Keys : LruGet(k)
    \/ \E k \in Keys : LruEvict(k)
    \/ LruFlush

NextSized ==
    \/ \E k \in Keys, v \in Values : SizedPut(k, v)
    \/ \E k \in Keys : SizedGet(k)
    \/ \E k \in Keys : SizedEvict(k)
    \/ SizedFlush

NextContainer ==
    \/ \E k \in Keys, v \in Values : WrapPut(k, v)
    \/ \E k \in Keys : WrapGet(k)
    \/ \E k \in Keys : WrapDelete(k)
    \/ WrapClear
    \/ \E k \in Keys : WrapContains(k)
    \/ WrapLen
    \/ WrapPortionFilled

\* The calls that change a byte cache's entries, on the keys of one shard.
NextByteStore ==
    \/ \E k \in SameShardKeys, b \in Bufs : ByteSet(k, b)
    \/ \E k \in SameShardKeys : ByteGet(None, k)
    \/ \E k \in SameShardKeys : ByteHasGet(None, k)
    \/ \E k \in SameShardKeys : ByteDel(k)
    \/ ByteReset

\* Every call of a byte cache, on keys of two shards.
NextByte ==
    \/ \E k \in ByteKeys, b \in Bufs : ByteSet(k, b)
    \/ \E k \in ByteKeys : ByteGet(None, k)
    \/ \E k \in ByteKeys : ByteHasGet(None, k)
    \/ \E k \in ByteKeys : ByteHas(k)
    \/ \E k \in ByteKeys : ByteDel(k)
    \/ ByteReset
    \/ ByteUpdateStats

\* The calls of a byte cache that pass buffers, and the caller's writes to
\* its buffers.
NextBuf ==
    \/ \E k \in BufKeys, b \in AllBufs : ByteSet(k, b)
    \/ \E k \in BufKeys, dst \in AllBufs \cup {None} : ByteGet(dst, k)
    \/ \E k \in BufKeys, dst \in AllBufs \cup {None} : ByteHasGet(dst, k)
    \/ \E b \in AllBufs, j \in 1..2, v \in ByteVals : MutateBuf(b, j, v)

\* A writer, then Reset in a goroutine of its own while a reader calls Has.
NextReset ==
    \/ \E k \in BufKeys, b \in Bufs : reset.pc = "idle" /\ ByteSet(k, b)
    \/ \E k \in BufKeys : ByteHas(k)
    \/ ResetBegin
    \/ ResetStep

\* The calls of a cache wrapped in a metercacher.Cache.
NextMeter ==
    \/ \E k \in Keys, v \in Values : MeterPut(k, v)
    \/ \E k \in Keys : MeterGet(k)
    \/ \E k \in Keys : MeterEvict(k)
    \/ MeterFlush

\* The calls of the goroutines of a byte cache.
NextConc ==
    \/ \E p \in Procs, k \in ConcKeys : ConcGetAdd(p, k)
    \/ \E p \in Procs, k \in ConcKeys, b \in Bufs : ConcSetAdd(p, k, b)
    \/ \E p \in Procs, k \in ConcKeys : ConcDel(p, k)
    \/ \E p \in Procs, k \in ConcKeys : ConcHas(p, k)
    \/ \E p \in Procs : ConcResetCall(p)
    \/ \E p \in Procs : ConcStatsCall(p)
    \/ \E p \in Procs : Continue(p)

Next == NextLru \/ NextSized \/ NextByteStore

\* The recency stores of this repository: lru.Cache, SizedCache and the
\* byte cache.
InitStores == Init /\ impl \in {"lru", "sized", "byte"}
Spec == InitStores /\ [][Next]_vars

\* The container-backed lru.Cache of lru/cache.go.
InitContainer == Init /\ impl = "container"
SpecContainer == InitContainer /\ [][NextContainer]_vars

\* A metercacher.Cache around one of the generic caches.
InitMeter == Init /\ impl \in {"lru", "sized", "container"}
SpecMeter == InitMeter /\ [][NextMeter]_vars

\* The byte cache alone, with every call.
InitByte == Init /\ impl = "byte"
SpecByte == InitByte /\ [][NextByte]_vars

\* The byte cache with Reset running beside a reader.
SpecReset == InitByte /\ [][NextReset]_vars

\* The byte cache called by concurrent goroutines.
SpecConc == InitByte /\ [][NextConc]_vars

\* The same under fair scheduling: a goroutine inside a call goes on, and a
\* goroutine that waits for a lock that is free again and again gets it.
\* The cache is New(2 * numShards): two bytes a shard.
InitConcFair == InitByte /\ maxBytes = 2 * numShards
SpecConcFair == InitConcFair /\ [][NextConc]_vars /\ \A p \in Procs : SF_vars(Continue(p))

\* The byte cache and a caller that reuses its buffers.
SpecBuf == InitByte /\ [][NextBuf]_vars

(***************************************************************************)
(* The claims                                                              *)
(***************************************************************************)
\* The position of key k in the sequence s.
Pos(s, k) == CHOOSE i \in 1..Len(s) : s[i] = k

\* The keys that share a store with key: the keys of its shard in a byte
\* cache, every key of the store otherwise.
Peers(key) ==
    IF impl = "byte" THEN DOMAIN shards[ShardOf(key)].items ELSE Live

\* The size of the entry a Put (Set) of key and val makes, and the budget of
\* the store (shard) it goes to.
EntrySize(key, val) ==
    IF impl = "sized" THEN SizeOf(key, val)
    ELSE IF impl = "byte" THEN Len(key) + Len(val)
    ELSE 1

Budget(key) ==
    IF impl = "lru" THEN size
    ELSE IF impl = "sized" THEN maxSize
    ELSE IF impl = "byte" THEN shards[ShardOf(key)].maxSize
    ELSE capacity

\* C1: every store's usage is at most its normalized budget: Len() <= size
\* for lru.Cache, currentSize <= maxSize for SizedCache and for every shard
\* of the byte cache, with every budget at least 1.
C1_CapacityBound ==
    /\ impl = "lru" => size >= 1 /\ Len(order) <= size
    /\ impl = "sized" => maxSize >= 1 /\ currentSize <= maxSize
    /\ impl = "byte" => \A i \in DOMAIN shards :
                           /\ shards[i].maxSize >= 1
                           /\ shards[i].currentSize <= shards[i].maxSize

\* C2: when a Put (Set) of an absent key removes entries to make room, every
\* entry it removes was touched (Put or Get hit) less recently than every
\* entry of the same store it keeps.
C2_Recency ==
    [][LET k == last'.key
       IN  (last'.op \in {"Put", "Set"} /\ k \notin Live /\ k \in LiveAfter)
           => \A r \in Live \ LiveAfter : \A q \in Peers(k) \cap LiveAfter :
                 Pos(touch, r) > Pos(touch, q)]_vars

\* C2 witness: capacity 3, Put(a), Put(b), Put(c), Get(a), Put(d) has just
\* evicted b and kept a.
C2_Witness ==
    /\ impl = "lru" /\ size = 3
    /\ last.op = "Put" /\ last.key = "d" /\ last.removed = 1
    /\ [i \in 1..Len(order) |-> order[i].key] = <<"d", "a", "c">>

\* C3: a Put (Set) whose entry size exceeds the budget of its store (shard)
\* leaves the stored data as it was: entries, values, order and usage.
C3_DropOversized ==
    [][(last'.op \in {"Put", "Set"}
        /\ EntrySize(last'.key, last'.val) > Budget(last'.key))
       => UNCHANGED <<items, lru, currentSize, shards, elements, order>>]_vars

\* C4: with an eviction callback, the callback is invoked exactly once for
\* each entry a Put removes for capacity, with its key and value, and by no
\* other call.
C4_CallbackDiscipline ==
    [][onEvict =>
         IF last'.op = "Put"
         THEN LET gone == {i \in 1..Len(containerCache.order) :
                              containerCache.order[i].key \notin LiveAfter}
              IN  /\ Len(cbCalls') = Cardinality(gone)
                  /\ {cbCalls'[j] : j \in 1..Len(cbCalls')}
                       = {<<containerCache.order[i].key, containerCache.order[i].value>> :
                             i \in gone}
         ELSE cbCalls' = <<>>]_vars

\* The value a Get returned.
Returned(l) == IF impl = "byte" THEN l.ret.data ELSE l.ret

\* C5, as claimed: a Get right after a Put (Set) of the same key returns the
\* value put, found.
C5_RoundTrip ==
    (last.op = "Get" /\ last.echo) => (last.found /\ Returned(last) = last.sent)

\* C5, amended: a Get right after a Put (Set) of the same key whose entry size
\* is within the budget of its store (shard) returns the value put, found.
C5_RoundTripInBudget ==
    (last.op = "Get" /\ last.echo /\ EntrySize(last.key, last.sent) <= Budget(last.key))
    => (last.found /\ Returned(last) = last.sent)

\* C5 witness: a SizedCache filled to its budget by a Put returned the value
\* to the Get that followed.
C5_Witness ==
    /\ impl = "sized" /\ sizeFn = "value" /\ currentSize = maxSize
    /\ Len(lru) >= 2
    /\ last.op = "Get" /\ last.echo /\ last.found /\ last.sent = 2

\* C6: every call of PortionFilled() on a cache built by lru.NewCache(n)
\* returns, and it returns Len()/n.
C6_PortionFilledReturns ==
    last.op = "PortionFilled"
    => /\ last.ret.returned
       /\ last.ret.num = ContainerLen(containerCache)
       /\ last.ret.den = capacity

\* What Flush (Reset) leaves: no entry, no usage, PortionFilled() = 0, and
\* every Get a miss.
Flushed ==
    /\ Live = {}
    /\ impl = "lru" => LruLen = 0 /\ LruPortionFilled[1] = 0
    /\ impl = "sized" => /\ SizedLen = 0 /\ currentSize = 0 /\ lru = <<>>
                         /\ SizedPortionFilled[1] = 0
    /\ impl = "byte" => \A i \in DOMAIN shards :
                           /\ shards[i].items = <<>> /\ shards[i].ent = <<>>
                           /\ shards[i].head = None /\ shards[i].tail = None
                           /\ shards[i].currentSize = 0

\* C7: Flush (Reset) leaves the store empty, a second Flush right after it
\* changes nothing, and no call changes the capacity.
C7_FlushIdempotent ==
    [][/\ last'.op \in {"Flush", "Reset"} => Flushed'
       /\ (last.op \in {"Flush", "Reset"} /\ last'.op \in {"Flush", "Reset"})
          => UNCHANGED <<lruVars, sizedVars, shards>>
       /\ size' = size /\ maxSize' = maxSize
       /\ \A i \in DOMAIN shards : shards'[i].maxSize = shards[i].maxSize]_vars

\* C7 witness: a Flush has just emptied a store of three entries.
C7_Witness ==
    last.op \in {"Flush", "Reset"} /\ last.removed = 3 /\ Flushed

\* C8: no stored value is in a buffer of the caller, no result of a lookup
\* is in a buffer of the cache, and a write of the caller to one of its
\* buffers (one passed to Set, one returned by Get or HasGet, a dst) changes
\* nothing of what is stored for any key.
C8_CopySemantics ==
    /\ [](\A i \in DOMAIN shards : \A e \in DOMAIN shards[i].ent :
             shards[i].ent[e].value.own)
    /\ [](last.op = "Get" => last.ret.buf \in AllBufs \cup {None})
    /\ [][last'.op = "Mutate" =>
             \A k \in BufKeys : Stored(k)' = Stored(k)]_vars

\* C8 witness: the caller has overwritten the buffer whose bytes are stored,
\* and the stored bytes differ from the buffer's.
C8_Witness ==
    /\ last.op = "Mutate"
    /\ \E k \in BufKeys : Stored(k) = <<TRUE, <<7>>>> /\ bufs[1] = <<8>>
    /\ bufs[ResultBuf] = <<8>>

\* Bit b of the byte x.
BitOf(x, b) == (x \div (2 ^ b)) % 2

\* The XOR of the bytes of key, bit by bit: a bit of it is set iff an odd
\* number of the key's bytes have that bit set; and the shard it selects.
KeyHash(key) ==
    LET bit(b) == Cardinality({j \in 1..Len(key) : BitOf(key[j], b) = 1}) % 2
    IN  bit(0) + 2 * bit(1) + 4 * bit(2) + 8 * bit(3)
        + 16 * bit(4) + 32 * bit(5) + 64 * bit(6) + 128 * bit(7)
KeyShard(key) == KeyHash(key) % numShards

\* C9: every entry of shard i has a key whose XOR-fold selects i, so that no
\* key is in two shards; and Set, Get, HasGet, Has and Del of a key leave
\* every shard but the key's as it was.
C9_ShardStability ==
    /\ [](\A i \in DOMAIN shards :
            /\ i \in 0..(numShards - 1)
            /\ \A k \in DOMAIN shards[i].items :
                  /\ KeyShard(k) = i
                  /\ shards[i].ent[shards[i].items[k]].key = k
                  /\ \A j \in DOMAIN shards : HasKey(shards[j], k) => j = i)
    /\ [][last'.op \in {"Set", "Get", "Has", "Del"} =>
            \A i \in DOMAIN shards :
               i # KeyShard(last'.key) => shards'[i] = shards[i]]_vars

\* C9 witness: keys of two shards are stored, two of them in one shard, and
\* the last call has removed one more key from its shard.
C9_Witness ==
    /\ last.op = "Del" /\ last.removed = 1
    /\ \E k1 \in Live, k2 \in Live :
          /\ KeyShard(k1) # KeyShard(k2)
          /\ KeyShard(last.key) = KeyShard(k1)
          /\ HasKey(shards[KeyShard(k1)], k1) /\ HasKey(shards[KeyShard(k2)], k2)

\* The shards Reset has been through, and those it has yet to lock.
Cleared(i) == reset.pc # "idle" /\ (i < reset.at \/ (i = reset.at /\ reset.pc = "unlock"))
Pending(i) == reset.pc # "idle" /\ (i > reset.at \/ (i = reset.at /\ reset.pc = "lock"))

\* C10: while Reset runs, the shards before the one it is at are cleared and
\* those after it are as they were when it began; and every Has during it
\* reads a shard that is either as it was when Reset began or cleared, never
\* one between the two.
C10_ResetShardByShard ==
    /\ [](\A i \in DOMAIN shards :
            /\ Cleared(i) => shards[i] = EmptyShard(shards[i].maxSize)
            /\ Pending(i) => shards[i] = pre[i])
    /\ [][(last'.op = "Has" /\ reset.pc # "idle") =>
            LET i == ShardOf(last'.key)
            IN  /\ shards[i] \in {pre[i], EmptyShard(shards[i].maxSize)}
                /\ last'.found = (IF Cleared(i) THEN FALSE
                                  ELSE HasKey(pre[i], last'.key))]_vars

\* C10 witness: during one Reset, a key stored before it in a shard already
\* cleared was reported absent, and then a key stored before it in a shard
\* not yet locked was reported present.
C10_Witness ==
    /\ reset.pc # "idle"
    /\ Len(seen) = 2
    /\ LET k1 == seen[1].key
           k2 == seen[2].key
       IN  /\ HasKey(pre[ShardOf(k1)], k1) /\ HasKey(pre[ShardOf(k2)], k2)
           /\ Cleared(ShardOf(k1)) /\ ~seen[1].found
           /\ Pending(ShardOf(k2)) /\ seen[2].found
           /\ last.op = "Has" /\ last.key = k2

\* The entries of a byte shard from head to tail, by their next pointers.
RECURSIVE ChainFrom(_, _, _)
ChainFrom(s, e, fuel) ==
    IF e = None \/ fuel = 0 THEN <<>>
    ELSE <<e>> \o ChainFrom(s, s.ent[e].next, fuel - 1)
Chain(s) == ChainFrom(s, s.head, Cardinality(DOMAIN s.ent) + 1)
ShardEntries(s) ==
    [j \in 1..Len(Chain(s)) |->
        LET e == s.ent[Chain(s)[j]]
        IN  [key |-> e.key, value |-> Bytes(e.value), size |-> e.size]]

\* The recency lists of the driven store, front first, as entries with key,
\* value and size: one list per shard for the byte cache, one list (numbered
\* 0) for the others, where an entry of lru.Cache weighs 1.
Entries ==
    IF impl = "lru"
    THEN [i \in {0} |-> [j \in 1..Len(order) |->
                            [key |-> order[j].key, value |-> order[j].value, size |-> 1]]]
    ELSE IF impl = "sized" THEN [i \in {0} |-> lru]
    ELSE [i \in DOMAIN shards |-> ShardEntries(shards[i])]

\* The usage each of these lists is accounted with.
Usage ==
    IF impl = "lru" THEN [i \in {0} |-> LruLen]
    ELSE IF impl = "sized" THEN [i \in {0} |-> currentSize]
    ELSE [i \in DOMAIN shards |-> shards[i].currentSize]

\* The list the entry of key belongs to.
ListOf(key) == IF impl = "byte" THEN ShardOf(key) ELSE 0

\* The sum of the sizes of the entries of the sequence l.
RECURSIVE SizeSum(_)
SizeSum(l) == IF l = <<>> THEN 0 ELSE Head(l).size + SizeSum(Tail(l))

\* l without the entry of key.
WithoutKey(l, key) == SelectSeq(l, LAMBDA e : e.key # key)

\* C11: Evict(key) (Del) takes the entry of key out, if there is one, and
\* lowers usage by its size; an absent key leaves the store as it was; every
\* other entry keeps its value, its size and its place among the others; and
\* a Get(key) that follows is a miss.
C11_ExplicitRemoval ==
    [][/\ last'.op \in {"Evict", "Del"} =>
            LET k == last'.key
                gone == SelectSeq(Entries[ListOf(k)], LAMBDA e : e.key = k)
            IN  /\ k \notin LiveAfter
                /\ Len(gone) = (IF k \in Live THEN 1 ELSE 0)
                /\ \A i \in DOMAIN Entries :
                      /\ Entries'[i] = WithoutKey(Entries[i], k)
                      /\ Usage'[i] = Usage[i] - (IF i = ListOf(k) THEN SizeSum(gone) ELSE 0)
                /\ k \notin Live => UNCHANGED <<lruVars, sizedVars, shards>>
       /\ (last.op \in {"Evict", "Del"} /\ last'.op = "Get" /\ last'.key = last.key)
             => ~last'.found]_vars

\* C11 witness: the Evict (Del) has just removed an entry from a sized store
\* (shard) of budget 3, which keeps one entry of size 1.
C11_Witness ==
    /\ last.op \in {"Evict", "Del"} /\ last.removed = 1
    /\ impl \in {"sized", "byte"}
    /\ Usage[ListOf(last.key)] = 1
    /\ Len(Entries[ListOf(last.key)]) = 1
    /\ Budget(last.key) = 3

\* C12: every call of the decorator is a call of the wrapped cache: it
\* returns what the bare Put, Get, Evict or Flush returns and leaves the
\* wrapped cache as the bare call leaves it, its lock released.
C12_MeterTransparent ==
    [][LET k == last'.key
           v == last'.val
       IN  /\ last'.op = "Put" => LruPut(k, v) \/ SizedPut(k, v) \/ WrapPut(k, v)
           /\ last'.op = "Get" => LruGet(k) \/ SizedGet(k) \/ WrapGet(k)
           /\ last'.op = "Evict" => LruEvict(k) \/ SizedEvict(k) \/ WrapDelete(k)
           /\ last'.op = "Flush" => LruFlush \/ SizedFlush \/ WrapClear]_vars


\* Goroutine p begins a call of op in this step, or returns from one.
Begins(p, op) == procs[p].pc = "idle" /\ started' = started + 1 /\ procs'[p].op = op
                 /\ (procs'[p].pc # "idle" \/ procs'[p].began = started)
Returns(p, op) == procs[p].pc # "idle" /\ procs[p].op = op /\ procs'[p].pc = "idle"

\* No call is running.
Quiescent == \A p \in Procs : procs[p].pc = "idle"

\* The lookups whose miss is decided and not yet counted.
RECURSIVE MissesDue(_)
MissesDue(ps) ==
    IF ps = {} THEN 0
    ELSE LET p == CHOOSE q \in ps : TRUE
         IN  (IF procs[p].pc = "miss" THEN 1 ELSE 0) + MissesDue(ps \ {p})

AtMost(n) == IF n < MaxCount THEN n ELSE MaxCount

\* C13: every Get adds exactly 1 to getCalls when it begins and exactly 1 to
\* misses iff its key was absent when it looked under the lock, every Set adds
\* exactly 1 to setCalls (also when the entry is dropped as oversized), and no
\* step of Has, Del, Reset or UpdateStats changes a counter.  No increment is
\* lost under concurrent callers: the counters always equal the numbers of
\* lookups, missed lookups and Sets made (a miss decided and not yet counted
\* aside), so they equal them once all calls have returned, and an UpdateStats
\* that runs with no other call beside it reports those numbers.
C13_Counters ==
    [][/\ getCalls' = (IF \E p \in Procs : Begins(p, "Get") THEN Counted(getCalls) ELSE getCalls)
       /\ setCalls' = (IF \E p \in Procs : Begins(p, "Set") THEN Counted(setCalls) ELSE setCalls)
       /\ misses' = (IF \E p \in Procs : Returns(p, "Get") /\ procs[p].pc = "miss"
                     THEN Counted(misses) ELSE misses)
       /\ \A p \in Procs :
             /\ (procs[p].op = "Get" /\ procs[p].pc = "in" /\ procs'[p].pc # "in")
                   => (procs'[p].pc = "miss" <=> procs[p].key \notin ByteLive)
             /\ (\E op \in {"Has", "Del", "Reset", "UpdateStats"} :
                     procs'[p] # procs[p] /\ procs'[p].op = op)
                   => UNCHANGED <<getCalls, setCalls, misses>>
             /\ (Returns(p, "UpdateStats") /\ procs[p].quiet /\ started = procs[p].began + 1)
                   => /\ last'.ret.GetCalls = done.gets
                      /\ last'.ret.Misses = done.misses
                      /\ last'.ret.SetCalls = done.sets
       /\ getCalls' = done'.gets
       /\ setCalls' = done'.sets
       /\ AtMost(misses' + MissesDue(Procs)') = done'.misses
       /\ Quiescent' => misses' = done'.misses]_vars

\* A lookup that missed and a Set dropped as oversized ran side by side, and an
\* UpdateStats that ran alone has reported them.
C13_Witness ==
    /\ Quiescent
    /\ \E p \in Procs :
          /\ procs[p].op = "UpdateStats" /\ procs[p].quiet /\ started = procs[p].began + 1
          /\ last.op = "UpdateStats" /\ last.ret = procs[p].snap
          /\ procs[p].snap.GetCalls = 1 /\ procs[p].snap.Misses = 1
          /\ procs[p].snap.SetCalls = 1 /\ procs[p].snap.EntriesCount = 0
    /\ \E q \in Procs : procs[q].op \in {"Get", "Set"} /\ ~procs[q].quiet


\* The keys of a list of entries.
EntryKeys(l) == {l[j].key : j \in 1..Len(l)}

\* A byte shard is well linked: the list from head reaches each entry of the
\* map once and no other, in the order the prev pointers give from tail.
WellLinked(s) ==
    LET chain == Chain(s)
        n == Len(chain)
    IN  /\ n = Cardinality(DOMAIN s.items)
        /\ {chain[j] : j \in 1..n} = {s.items[k] : k \in DOMAIN s.items}
        /\ \A k \in DOMAIN s.items : s.ent[s.items[k]].key = k
        /\ (s.head = None) <=> (DOMAIN s.items = {})
        /\ (s.tail = None) <=> (DOMAIN s.items = {})
        /\ s.head # None => s.ent[s.head].prev = None /\ chain[1] = s.head
        /\ s.tail # None => s.ent[s.tail].next = None /\ chain[n] = s.tail
        /\ \A j \in 1..n :
              /\ s.ent[chain[j]].next = (IF j < n THEN chain[j + 1] ELSE None)
              /\ s.ent[chain[j]].prev = (IF j > 1 THEN chain[j - 1] ELSE None)

\* C14: between calls, the keys of the lookup map are exactly the keys met by
\* walking the recency list from head to tail, each once; in a byte shard
\* head.prev and tail.next are nil, head and tail are nil iff the map is
\* empty, and the prev and next links are inverse to each other; and
\* currentSize is the sum of the recorded sizes of the live entries.  For
\* SizedCache and for every shard of the byte cache.
C14_Structure ==
    /\ impl = "sized" =>
          /\ EntryKeys(lru) = items
          /\ Len(lru) = Cardinality(items)
          /\ currentSize = SizeSum(lru)
    /\ impl = "byte" =>
          \A i \in DOMAIN shards :
             /\ WellLinked(shards[i])
             /\ EntryKeys(ShardEntries(shards[i])) = DOMAIN shards[i].items
             /\ shards[i].currentSize = SizeSum(ShardEntries(shards[i]))

\* A hit has left its key at the head of a shard of two entries that use the
\* whole budget of the shard.
C14_Witness ==
    /\ impl = "byte"
    /\ last.op = "Get" /\ last.found
    /\ \E i \in DOMAIN shards :
          LET s == shards[i]
          IN  /\ Len(Chain(s)) = 2
              /\ s.ent[s.head].key = last.key
              /\ s.currentSize = 4


\* The entry a Put (Set) of key and val makes.
EntryOf(key, val) == [key |-> key, value |-> val, size |-> EntrySize(key, val)]

\* The recency lists and usages after an update in place of key's entry to
\* val: the new entry at the front of key's list, the others as they were.
UpdatedInPlace(key, val) ==
    \A i \in DOMAIN Entries :
       LET old == SelectSeq(Entries[i], LAMBDA e : e.key = key)
       IN  IF i = ListOf(key)
           THEN /\ Entries'[i] = <<EntryOf(key, val)>> \o WithoutKey(Entries[i], key)
                /\ Usage'[i] = Usage[i] - SizeSum(old) + EntrySize(key, val)
           ELSE /\ Entries'[i] = Entries[i]
                /\ Usage'[i] = Usage[i]

\* C15: a Put (Set) for a key that is present, with an entry size within the
\* budget, replaces the key's value and size, adjusts usage by the difference
\* of the sizes and makes the key most recently used; it removes no other
\* entry, so Len() is unchanged and every other key keeps its value and its
\* place among the others.  For lru.Cache, SizedCache and the byte cache's
\* Set, whatever the old and the new size.
C15_UpdateInPlace ==
    [][(/\ last'.op \in {"Put", "Set"}
        /\ last'.key \in Live
        /\ EntrySize(last'.key, last'.val) <= Budget(last'.key))
          => /\ UpdatedInPlace(last'.key, last'.val)
             /\ LiveAfter = Live]_vars


\* The first n entries of the list l.
Front(l, n) == SubSeq(l, 1, n)

\* C16: a Put (Set) of an absent key with an entry size within the budget
\* removes the shortest run of entries at the least recently used end of the
\* key's list that makes usage + size <= budget: none if the entry fits, one
\* in a full lru.Cache, and never an entry more recent than one it keeps.
\* Afterwards the key is present and most recently used, and usage has grown
\* by the entry's size less the sizes of the entries removed.  The other
\* lists are as they were.
C16_MinimalEviction ==
    [][(/\ last'.op \in {"Put", "Set"}
        /\ last'.key \notin Live
        /\ EntrySize(last'.key, last'.val) <= Budget(last'.key))
          => LET k == last'.key
                 new == EntryOf(k, last'.val)
                 l == Entries[ListOf(k)]
                 fits(n) == SizeSum(Front(l, n)) + new.size <= Budget(k)
                 kept == Len(Entries'[ListOf(k)]) - 1
             IN  /\ kept \in 0..Len(l)
                 /\ Entries'[ListOf(k)] = <<new>> \o Front(l, kept)
                 /\ fits(kept)
                 /\ \A n \in (kept + 1)..Len(l) : ~fits(n)
                 /\ Usage'[ListOf(k)] = Usage[ListOf(k)] + new.size
                                          - SizeSum(SubSeq(l, kept + 1, Len(l)))
                 /\ (impl = "lru" /\ Len(l) = size) => kept = Len(l) - 1
                 /\ \A i \in DOMAIN Entries \ {ListOf(k)} :
                       Entries'[i] = Entries[i] /\ Usage'[i] = Usage[i]]_vars

\* A Put of a new entry of size 2 into a full SizedCache of budget 3 has
\* removed the two oldest entries and kept the newest.
C16_Witness ==
    /\ impl = "sized" /\ maxSize = 3
    /\ last.op = "Put" /\ last.removed = 2
    /\ Len(lru) = 2 /\ lru[1].key = last.key /\ lru[1].size = 2
    /\ currentSize = 3


\* The SizedCache of the state read as a count-bounded Cache: its budget as
\* the capacity, its map, and its list without the recorded sizes.
AsLru ==
    [size |-> maxSize, elements |-> items,
     order |-> [j \in 1..Len(lru) |-> [key |-> lru[j].key, value |-> lru[j].value]]]

\* The Cache c with the map and list (and what else) r gives.
After(c, r) == [size |-> c.size, elements |-> r.elements, order |-> r.order]

\* C17: a SizedCache built with capacity n and the sizing function that
\* returns 1 (the default for a nil sizeFn) behaves as the lru.Cache of
\* capacity n: they start alike, and each Put, Get, Evict and Flush of the
\* SizedCache returns what the same call returns on the lru.Cache that holds
\* the same keys with the same values in the same recency order, and leaves
\* the two alike again, with the same Len().
C17_UnitSizingIsLru ==
    [][(impl = "sized" /\ sizeFn = "unit") =>
          LET c == AsLru
              k == last'.key
          IN  /\ last.op = "New" =>
                    \A n \in Capacities :
                       NewSizedCache(n, "nil") =>
                          c = [size |-> NormCapacity(n), elements |-> {}, order |-> <<>>]
              /\ last'.op = "Put" => AsLru' = After(c, PutOn(c, k, last'.val))
              /\ last'.op = "Get" =>
                    /\ AsLru' = After(c, [elements |-> c.elements, order |-> GetOn(c, k).order])
                    /\ last'.found = GetOn(c, k).found
                    /\ last'.ret = GetOn(c, k).ret
              /\ last'.op = "Evict" => AsLru' = After(c, EvictOn(c, k))
              /\ last'.op = "Flush" =>
                    AsLru' = After(c, [elements |-> {}, order |-> LruFlushOrder(c.order)])
              /\ SizedLen' = Len(AsLru'.order)
              /\ currentSize' = SizedLen']_vars

\* A Put of a new key into a full SizedCache of capacity 3 with unit sizing
\* has evicted one entry.
C17_Witness ==
    /\ impl = "sized" /\ sizeFn = "unit" /\ maxSize = 3
    /\ last.op = "Put" /\ last.removed = 1
    /\ Len(lru) = 3 /\ lru[1].key = last.key /\ lru[1].value = 2


\* C18: an existence check is not a touch.  Has(key) of the byte cache and
\* Contains(key) of the cache of lru/cache.go leave membership, values, usage
\* and recency order as they were, so the next capacity eviction takes the
\* victim it would have taken without the check.
C18_CheckIsNoTouch ==
    [][last'.op \in {"Has", "Contains"} =>
          /\ LiveAfter = Live
          /\ UNCHANGED <<shards, containerCache>>]_vars


\* C19: a Get (HasGet) that hits returns exactly the bytes that were stored
\* for the key when the call held the shard lock, although it copies them
\* after the Unlock: a Set, Del or Reset of another goroutine that runs
\* between the Unlock and the copy changes nothing of what is returned.
C19_HitReturnsLockedBytes ==
    [][\A p \in Procs :
          (Returns(p, "Get") /\ procs[p].pc = "copy")
             => /\ last'.op = "Get" /\ last'.key = procs[p].key
                /\ last'.found
                /\ last'.ret.data = procs[p].atLock]_vars

\* A Get has returned the bytes 7 it found under the lock after another
\* goroutine stored other bytes for the key between its Unlock and its copy.
C19_Witness ==
    /\ last.op = "Get" /\ last.found /\ last.ret.data = <<7>>
    /\ \E p \in Procs :
          /\ procs[p].op = "Get" /\ procs[p].pc = "idle" /\ procs[p].key = last.key
          /\ procs[p].raced /\ procs[p].atLock = <<7>>
    /\ Stored(last.key) = <<TRUE, <<>>>>


\* The live counters: no more misses than lookups.
LiveCounters == misses <= getCalls

\* C20: the live counters always satisfy misses <= getCalls, and every
\* snapshot UpdateStats fills in, also one taken while lookups run beside it,
\* satisfies Misses <= GetCalls.
C20_SnapshotConsistent ==
    /\ LiveCounters
    /\ last.op = "UpdateStats" => last.ret.Misses <= last.ret.GetCalls


\* The shards whose lock goroutine p holds or has called Lock on.
HeldBy(p) == {i \in DOMAIN locks : locks[i].w = p \/ p \in locks[i].r}

\* Goroutine p is in a call.
Busy(p) == procs[p].pc # "idle"

\* A goroutine has a lock only from its Lock (RLock) call to the end of its
\* critical section, and then only the lock of the shard it works on, in one
\* mode.
LockDiscipline ==
    \A p \in Procs :
       /\ procs[p].pc # "in" => HeldBy(p) = {}
       /\ procs[p].pc = "in" =>
             /\ HeldBy(p) = {LockAt(p)}
             /\ (locks[LockAt(p)].w = p) # (p \in locks[LockAt(p)].r)
             /\ (locks[LockAt(p)].w = p) = ~Reads(p)

\* While a call is running, some running call can take a step.
NoDeadlock == (\E p \in Procs : Busy(p)) => \E p \in Procs : ENABLED Continue(p)

\* C21: the byte cache is free of deadlock.  No call holds the lock of more
\* than one shard at a time (Reset and UpdateStats release each shard before
\* they lock the next), no call takes again a lock it holds, and every lock
\* taken is released on every path; so with goroutines running Set, Get,
\* HasGet, Has, Del, Reset and UpdateStats side by side no state is reached
\* in which the running calls all wait, and under fair scheduling every call
\* returns.
C21_DeadlockFree ==
    /\ [](LockDiscipline /\ NoDeadlock)
    /\ \A p \in Procs : Busy(p) ~> ~Busy(p)

\* Reset has called Lock on a shard that UpdateStats of the other goroutine
\* is reading, and waits for it to leave.
C21_Witness ==
    \E p, q \in Procs :
       /\ procs[p].op = "Reset" /\ procs[p].pc = "in"
       /\ procs[q].op = "UpdateStats" /\ procs[q].pc = "in"
       /\ LockAt(p) = LockAt(q)
       /\ locks[LockAt(p)] = [w |-> p, r |-> {q}]
       /\ ~ENABLED ConcReset(p)


\* C22: for a byte cache built by New(maxBytes), between calls the sum of
\* currentSize over all shards, which UpdateStats reports as BytesSize, is at
\* most max(maxBytes, 1) (the value New keeps as maxBytes), also when maxBytes
\* is smaller than the number of shards and each shard's budget is floored
\* at 1.
C22_AggregateBudget ==
    impl = "byte" =>
       /\ maxBytes >= 1
       /\ Stats.BytesSize <= maxBytes
       /\ last.op = "UpdateStats" => last.ret.BytesSize <= maxBytes

=============================================================================
